---- MODULE Spec2Model ----
(***************************************************************************)
(* Inventory (stock) management UI: the App component of the revision with *)
(* the priority flag (src/unnamed/part_000, lines 1-1859), which is        *)
(* src/src/App.tsx plus togglePrioritario, updateMov and the priority      *)
(* filter.  The model holds the component state (useState cells), the      *)
(* position of the two-phase loader, the HTTP requests in flight and the   *)
(* debounce timer.  Every handler runs to completion in one step (the UI   *)
(* event loop is single threaded); an await is the boundary between the    *)
(* step that issues a request and the step that handles its response.      *)
(* The backend is an external HTTP service: the content of a response is   *)
(* an input, drawn from a bounded set when the response is handled.        *)
(***************************************************************************)
EXTENDS Integers, Sequences, FiniteSets, TLC

(***************************************************************************)
(* Bounds of the model.                                                    *)
(***************************************************************************)
NumProdutos == 2      \* product identifiers 1..NumProdutos
NumMovs == 2          \* movement identifiers 1..NumMovs
MaxInflight == 2      \* mutation requests in flight at the same time
MaxOps == 2           \* mutation requests issued in one run
TickMs == 250         \* milliseconds that pass in one step of the clock
MaxPaginas == 4       \* full pages of the longest product list
MaxLazyPage == 3      \* pages the lazy-load revision fetches in one run
MaxTotalPages == 10   \* pages of the longest movement list under the page strip

(***************************************************************************)
(* Program constants.                                                      *)
(***************************************************************************)
ITEMS_PER_PAGE == 30
DEBOUNCE_DELAY == 500
ITEMS_PER_PAGE_LAZY == 25   \* ITEMS_PER_PAGE of the lazy-load revision

PIds == 1..NumProdutos
MIds == 1..NumMovs
Tipos == {"entrada", "saida", "ajuste"}
Quantidades == {0, 2}

(***************************************************************************)
(* Strings are sequences of one-character strings, so that toLowerCase,    *)
(* trim and includes are computed and not assumed.                         *)
(***************************************************************************)
LowerChar(c) ==
  CASE c = "A" -> "a"
    [] c = "B" -> "b"
    [] OTHER -> c

toLowerCase(s) == [i \in 1..Len(s) |-> LowerChar(s[i])]

RECURSIVE trimStart(_)
trimStart(s) ==
  IF s /= <<>> /\ Head(s) = " " THEN trimStart(Tail(s)) ELSE s

RECURSIVE trimEnd(_)
trimEnd(s) ==
  IF s /= <<>> /\ s[Len(s)] = " " THEN trimEnd(SubSeq(s, 1, Len(s) - 1)) ELSE s

trim(s) == trimEnd(trimStart(s))

includes(s, t) ==
  \E i \in 0..(Len(s) - Len(t)) : SubSeq(s, i + 1, i + Len(t)) = t

(***************************************************************************)
(* A Produto is a record; an optional property (categoria, estoqueMinimo,  *)
(* prioritario) that is undefined is a field the record does not have.     *)
(***************************************************************************)
Has(p, f) == f \in DOMAIN p

\* {...p, prioritario: v}
WithPrioritario(p, v) == ("prioritario" :> v) @@ p

\* !!p.prioritario
Truthy(p) == Has(p, "prioritario") /\ p.prioritario

\* Array.prototype.slice(start, end) for 0 <= start
slice(list, start, end) ==
  SubSeq(list, start + 1, IF end < Len(list) THEN end ELSE Len(list))

VARIABLES
  produtos,            \* first page (useState, line 62)
  allProdutos,         \* complete list (line 63)
  movs,                \* movements (line 64)
  loading,             \* line 67
  loadingAll,          \* line 68
  error,               \* line 69: "" stands for null
  q,                   \* search input (line 74)
  categoriaFilter,     \* line 75
  mostrarAbaixoMin,    \* line 76
  mostrarPrioritarios, \* line 77
  page,                \* line 78
  currentPage,         \* ConsultaMovimentacoes (line 552)
  itemsPerPage,        \* ConsultaMovimentacoes (line 553)
  movCategoria,        \* ConsultaMovimentacoes' categoria (line 551)
  debouncedQ,          \* useDebounce's debouncedValue (line 47)
  timer,               \* useDebounce's pending setTimeout (line 49)
  fetchPc,             \* position of fetchInitialData
  inflight,            \* mutation requests awaiting their response
  nops,                \* number of mutation requests issued so far
  last,                \* the handler that ran last, with its outcome
  backend,             \* prioritario as the backend stores it, by product id
  lazy                 \* the App of the lazy-load revision (lines 1899-1909)

dataVars == <<produtos, allProdutos, movs>>
loadVars == <<loading, loadingAll, error, fetchPc>>
inputVars == <<q, categoriaFilter, mostrarAbaixoMin, mostrarPrioritarios,
               debouncedQ, timer, itemsPerPage, movCategoria>>
uiVars == <<inputVars, page, currentPage>>
reqVars == <<inflight, nops, last>>
vars == <<produtos, allProdutos, movs, loading, loadingAll, error, q,
          categoriaFilter, mostrarAbaixoMin, mostrarPrioritarios, page,
          currentPage, itemsPerPage, movCategoria, debouncedQ, timer, fetchPc,
          inflight, nops, last, backend, lazy>>

NoError == ""
ErroInicial == "Nao foi possivel conectar ao servidor. Verifique o backend."

(***************************************************************************)
(* Data the backend answers with.  A product keeps its sku, nome,          *)
(* categoria and estoqueMinimo; quantidade and prioritario are whatever    *)
(* the server holds when it answers.                                       *)
(***************************************************************************)
Nome(i) == IF i = 1 THEN <<"a", "b">> ELSE IF i = 2 THEN <<"B">> ELSE <<"A", " ", "b">>
Sku(i) == IF i = 1 THEN <<"s", "a">> ELSE IF i = 2 THEN <<"s", "b">> ELSE <<"s", "A">>
Categoria(i) == IF i % 2 = 1 THEN <<"a">> ELSE <<"b">>

Produto(i, qt, pr) ==
  [id |-> i, sku |-> Sku(i), nome |-> Nome(i), categoria |-> Categoria(i),
   quantidade |-> qt, estoqueMinimo |-> 1, prioritario |-> pr]

ProdutosServidor(i) == {Produto(i, qt, pr) : qt \in Quantidades, pr \in BOOLEAN}

Mov(mid, pid, tipo, qt) == [id |-> mid, produtoId |-> pid, tipo |-> tipo, quantidade |-> qt]

\* GET /api/produtos?_page=1&_limit=30 and GET /api/produtos?_limit=10000
ListasProdutos ==
  {[i \in 1..n |-> Produto(i, IF i = 2 THEN 0 ELSE 2, FALSE)] : n \in 0..NumProdutos}

\* GET /api/movimentacoes
ListasMovs ==
  {[m \in 1..n |-> Mov(m, ((m - 1) % NumProdutos) + 1,
                       IF m % 2 = 1 THEN "entrada" ELSE "ajuste", 1)]
     : n \in 0..NumMovs}

Ids(list) == {list[i].id : i \in 1..Len(list)}
Elems(list) == {list[i] : i \in 1..Len(list)}

(***************************************************************************)
(* Derived data (useMemo).                                                 *)
(***************************************************************************)
\* mutant of Matches: below the minimum is taken strictly
MatchesStrict(p, dq, cat, abaixoMin, prioritarios) ==
  LET query == toLowerCase(trim(dq))
      matchesQuery ==
        \/ query = <<>>
        \/ includes(toLowerCase(p.nome), query)
        \/ includes(toLowerCase(p.sku), query)
        \/ (Has(p, "categoria") /\ includes(toLowerCase(p.categoria), query))
      matchesCategoria ==
        cat = <<>> \/ (Has(p, "categoria") /\ p.categoria = cat)
      matchesAbaixoMin ==
        ~abaixoMin \/ (Has(p, "estoqueMinimo") /\ p.quantidade < p.estoqueMinimo)
      matchesPrioritario == ~prioritarios \/ Truthy(p)
  IN matchesQuery /\ matchesCategoria /\ matchesAbaixoMin /\ matchesPrioritario

Matches(p, dq, cat, abaixoMin, prioritarios) ==
  LET query == toLowerCase(trim(dq))
      matchesQuery ==
        \/ query = <<>>
        \/ includes(toLowerCase(p.nome), query)
        \/ includes(toLowerCase(p.sku), query)
        \/ (Has(p, "categoria") /\ includes(toLowerCase(p.categoria), query))
      matchesCategoria ==
        cat = <<>> \/ (Has(p, "categoria") /\ p.categoria = cat)
      matchesAbaixoMin ==
        ~abaixoMin \/ (Has(p, "estoqueMinimo") /\ p.quantidade <= p.estoqueMinimo)
      matchesPrioritario == ~prioritarios \/ Truthy(p)
  IN matchesQuery /\ matchesCategoria /\ matchesAbaixoMin /\ matchesPrioritario

\* mutant of FilteredProdutos: the products that pass come out last first
FilteredProdutosReversed(la, first, all, dq, cat, abaixoMin, prioritarios) ==
  LET kept == SelectSeq(all, LAMBDA p : Matches(p, dq, cat, abaixoMin, prioritarios))
  IN IF la THEN first ELSE [i \in 1..Len(kept) |-> kept[Len(kept) + 1 - i]]

\* mutant of FilteredProdutos: the filter keeps reading the first page
FilteredProdutosFirstPage(la, first, all, dq, cat, abaixoMin, prioritarios) ==
  SelectSeq(first, LAMBDA p : la \/ Matches(p, dq, cat, abaixoMin, prioritarios))

FilteredProdutos(la, first, all, dq, cat, abaixoMin, prioritarios) ==
  IF la THEN first
  ELSE SelectSeq(all, LAMBDA p : Matches(p, dq, cat, abaixoMin, prioritarios))

filteredProdutos ==
  FilteredProdutos(loadingAll, produtos, allProdutos, debouncedQ,
                   categoriaFilter, mostrarAbaixoMin, mostrarPrioritarios)

\* mutant of PaginatedProdutos: the page number is taken as zero-based
PaginatedProdutosZeroBased(list, pg) ==
  LET startIndex == pg * ITEMS_PER_PAGE
  IN slice(list, startIndex, startIndex + ITEMS_PER_PAGE)

PaginatedProdutos(list, pg) ==
  LET startIndex == (pg - 1) * ITEMS_PER_PAGE
  IN slice(list, startIndex, startIndex + ITEMS_PER_PAGE)

paginatedProdutos == PaginatedProdutos(filteredProdutos, page)

\* ConsultaMovimentacoes: its date inputs are left empty; with a category
\* selected a movement passes when its product is in allProdutos (the
\* produtos prop) and has that category
FilteredMovs(list, prods, cat) ==
  SelectSeq(list, LAMBDA mov :
    cat = <<>> \/
    \E i \in 1..Len(prods) :
      /\ prods[i].id = mov.produtoId
      /\ Has(prods[i], "categoria") /\ prods[i].categoria = cat)

filteredMovs == FilteredMovs(movs, allProdutos, movCategoria)

PaginatedMovs(list, pg, size) ==
  LET startIndex == (pg - 1) * size
  IN slice(list, startIndex, startIndex + size)

paginatedMovs == PaginatedMovs(filteredMovs, currentPage, itemsPerPage)

\* Paginacao: Math.ceil(totalItems / itemsPerPage)
TotalPages(totalItems, size) == (totalItems + size - 1) \div size

\* what App returns: the error alert alone, or the screen
View == IF error /= NoError THEN "error" ELSE "app"

\* the rows of ProdutosTable, which is rendered once loading is false
Rows == IF View = "app" /\ ~loading THEN Elems(paginatedProdutos) ELSE {}

(***************************************************************************)
(* Initial state: App is mounted, the mount effects have run:              *)
(* fetchInitialData awaits the first page and useDebounce has set its      *)
(* first timer.                                                            *)
(***************************************************************************)
NoReq ==
  [op |-> "none", id |-> 0, mid |-> 0, tipo |-> "none", s |-> FALSE,
   cached |-> FALSE, clean |-> FALSE]
Req(op, id, mid, tipo, s, cached) ==
  [op |-> op, id |-> id, mid |-> mid, tipo |-> tipo, s |-> s,
   cached |-> cached, clean |-> cached]

\* a change of a filter control, kept for the properties with the pages the
\* two tables were on when it happened
Input == [ev |-> "input", req |-> [NoReq EXCEPT !.id = page, !.mid = currentPage]]

TimerOff == [on |-> FALSE, value |-> <<>>, elapsed |-> 0]
TimerFor(v) == [on |-> TRUE, value |-> v, elapsed |-> 0]

\* The App of the lazy-load revision when it is mounted (lines 1899-1909):
\* its useState cells, the position of its fetchInitialData (fetchPc), the
\* pages that the load-more requests in flight ask for (pedidos) and, for
\* the properties, the page numbers whose products have been put in the
\* list (paginas)
LazyInit ==
  [produtos |-> <<>>, movs |-> <<>>, initialLoading |-> TRUE, error |-> NoError,
   view |-> "estoque", page |-> 1, hasMore |-> TRUE, loadingMore |-> FALSE,
   fetchPc |-> "first", pedidos |-> <<>>, paginas |-> <<>>]

Init ==
  /\ produtos = <<>>
  /\ allProdutos = <<>>
  /\ movs = <<>>
  /\ loading = TRUE
  /\ loadingAll = TRUE
  /\ error = NoError
  /\ q = <<>>
  /\ categoriaFilter = <<>>
  /\ mostrarAbaixoMin = FALSE
  /\ mostrarPrioritarios = FALSE
  /\ page = 1
  /\ currentPage = 1
  /\ itemsPerPage = 30
  /\ movCategoria = <<>>
  /\ debouncedQ = <<>>
  /\ timer = TimerFor(<<>>)
  /\ fetchPc = "first"
  /\ inflight = {}
  /\ nops = 0
  /\ last = [ev |-> "mount", req |-> NoReq]
  /\ backend = [i \in PIds |-> FALSE]
  /\ lazy = LazyInit

(***************************************************************************)
(* Array helpers of the setState updaters.                                 *)
(***************************************************************************)
\* mutant of ReplaceById: the entry is merged and keeps the quantity the
\* client held
ReplaceByIdKeepsQuantidade(list, id, novo) ==
  [i \in 1..Len(list) |->
     IF list[i].id = id THEN [novo EXCEPT !.quantidade = list[i].quantidade]
     ELSE list[i]]

\* mutant of ReplaceById: an entry that is not in the list is put at its head
ReplaceByIdUpsert(list, id, novo) ==
  IF id \in Ids(list)
  THEN [i \in 1..Len(list) |-> IF list[i].id = id THEN novo ELSE list[i]]
  ELSE <<novo>> \o list

\* prev.map((x) => (x.id === id ? novo : x))
ReplaceById(list, id, novo) ==
  [i \in 1..Len(list) |-> IF list[i].id = id THEN novo ELSE list[i]]

\* prev.filter((p) => p.id !== id)
RemoveById(list, id) == SelectSeq(list, LAMBDA x : x.id /= id)

\* mutant of RemoveByProdutoId: the movements are kept
RemoveByProdutoIdKeepsMovs(list, id) == list

\* prev.filter((m) => m.produtoId !== id)
RemoveByProdutoId(list, id) == SelectSeq(list, LAMBDA m : m.produtoId /= id)

\* prev.map((p) => (p.id === id ? { ...p, prioritario: v } : p))
SetPrioritario(list, id, v) ==
  [i \in 1..Len(list) |-> IF list[i].id = id THEN WithPrioritario(list[i], v) ELSE list[i]]

\* The two page-reset effects, which run after the render that follows a
\* handler when one of their dependencies has changed:
\*   useEffect(() => setPage(1), [filteredProdutos.length])
\*   useEffect(() => setCurrentPage(1), [filteredMovs.length, itemsPerPage])
\* mutant of PageEffects: the effects are missing
PageEffectsMissing ==
  /\ page' = page
  /\ currentPage' = currentPage

PageEffects ==
  /\ page' = IF Len(filteredProdutos') /= Len(filteredProdutos) THEN 1 ELSE page
  /\ currentPage' =
       IF Len(filteredMovs') /= Len(filteredMovs) \/ itemsPerPage' /= itemsPerPage
       THEN 1 ELSE currentPage

(***************************************************************************)
(* Requests in flight.  A toggle request carries currentState (s) as the   *)
(* closure of togglePrioritario does.  Two history fields serve the        *)
(* properties: cached records that the product was an entry of allProdutos *)
(* when togglePrioritario was called, clean that it was and that no other  *)
(* handler has written that entry since.                                   *)
(***************************************************************************)
Same(r1, r2) ==
  /\ r1.op = r2.op /\ r1.id = r2.id /\ r1.mid = r2.mid
  /\ r1.tipo = r2.tipo /\ r1.s = r2.s

MarkWritten(reqs, S) ==
  {IF r.op = "toggle" /\ r.id \in S THEN [r EXCEPT !.clean = FALSE] ELSE r : r \in reqs}

CanIssue(r) ==
  /\ View = "app"
  /\ nops < MaxOps
  /\ Cardinality(inflight) < MaxInflight
  /\ \A r2 \in inflight : ~Same(r, r2)

Issue(r, written) ==
  /\ inflight' = MarkWritten(inflight, written) \cup {r}
  /\ nops' = nops + 1
  /\ last' = [ev |-> "call", req |-> r]

Done(r, ev, written) ==
  /\ inflight' = MarkWritten(inflight \ {r}, written)
  /\ last' = [ev |-> ev, req |-> r]
  /\ UNCHANGED nops

(***************************************************************************)
(* fetchInitialData (lines 83-117).                                        *)
(***************************************************************************)
FirstPageOk(data) ==
  /\ fetchPc = "first"
  /\ produtos' = data
  /\ loading' = FALSE
  /\ fetchPc' = "second"
  /\ last' = [ev |-> "load", req |-> NoReq]
  /\ UNCHANGED <<backend, lazy, allProdutos, movs, loadingAll, error, inputVars, inflight, nops>>
  /\ PageEffects

\* the first fetch rejects, or answers non-2xx, or its body does not parse
FirstPageFail ==
  /\ fetchPc = "first"
  /\ error' = ErroInicial
  /\ loadingAll' = FALSE
  /\ fetchPc' = "done"
  /\ last' = [ev |-> "load", req |-> NoReq]
  /\ UNCHANGED <<backend, lazy, dataVars, loading, inputVars, inflight, nops>>
  /\ PageEffects

\* both fetches of Promise.all answered 2xx and both bodies parsed
FullOk(allProdsData, movsData) ==
  /\ fetchPc = "second"
  /\ allProdutos' = allProdsData
  /\ movs' = movsData
  /\ loadingAll' = FALSE
  /\ fetchPc' = "done"
  /\ inflight' = MarkWritten(inflight, PIds)
  /\ last' = [ev |-> "load", req |-> NoReq]
  /\ UNCHANGED <<backend, lazy, produtos, loading, error, inputVars, nops>>
  /\ PageEffects

\* mutant of FullFail: the loader starts over after reporting the failure
FullFailRetries ==
  /\ fetchPc = "second"
  /\ error' = ErroInicial
  /\ loadingAll' = FALSE
  /\ fetchPc' = "first"
  /\ last' = [ev |-> "load", req |-> NoReq]
  /\ UNCHANGED <<backend, lazy, dataVars, loading, inputVars, inflight, nops>>
  /\ PageEffects

\* mutant of FullFail: setLoadingAll(false) is in the try block, not in finally
FullFailKeepsLoadingAll ==
  /\ fetchPc = "second"
  /\ error' = ErroInicial
  /\ fetchPc' = "done"
  /\ last' = [ev |-> "load", req |-> NoReq]
  /\ UNCHANGED <<backend, lazy, dataVars, loading, loadingAll, inputVars, inflight, nops>>
  /\ PageEffects

\* one of the two fetches rejects, or answers non-2xx, or a body does not parse
FullFail ==
  /\ fetchPc = "second"
  /\ error' = ErroInicial
  /\ loadingAll' = FALSE
  /\ fetchPc' = "done"
  /\ last' = [ev |-> "load", req |-> NoReq]
  /\ UNCHANGED <<backend, lazy, dataVars, loading, inputVars, inflight, nops>>
  /\ PageEffects

(***************************************************************************)
(* addProduto (lines 136-151).                                             *)
(***************************************************************************)
AddProdutoCall ==
  LET r == Req("addProduto", 0, 0, "none", FALSE, FALSE)
  IN /\ CanIssue(r)
     /\ Issue(r, {})
     /\ UNCHANGED <<backend, lazy, dataVars, loadVars, uiVars>>

AddProdutoOk(r, novoProduto) ==
  /\ r \in inflight /\ r.op = "addProduto"
  /\ novoProduto.id \notin Ids(allProdutos) \cup Ids(produtos) \cup {x.id : x \in inflight}
  /\ allProdutos' = <<novoProduto>> \o allProdutos
  /\ Done(r, "ok", {})
  /\ UNCHANGED <<backend, lazy, produtos, movs, loadVars, inputVars>>
  /\ PageEffects

AddProdutoFail(r) ==
  /\ r \in inflight /\ r.op = "addProduto"
  /\ Done(r, "fail", {})
  /\ UNCHANGED <<backend, lazy, dataVars, loadVars, uiVars>>

(***************************************************************************)
(* updateProduto (lines 153-171).                                          *)
(***************************************************************************)
UpdateProdutoCall(p) ==
  LET r == Req("updateProduto", p.id, 0, "none", FALSE, FALSE)
  IN /\ p \in Rows
     /\ CanIssue(r)
     /\ Issue(r, {})
     /\ UNCHANGED <<backend, lazy, dataVars, loadVars, uiVars>>

UpdateProdutoOk(r, produtoAtualizado) ==
  /\ r \in inflight /\ r.op = "updateProduto"
  /\ produtoAtualizado.id = r.id
  /\ allProdutos' = ReplaceById(allProdutos, r.id, produtoAtualizado)
  /\ Done(r, "ok", {r.id})
  /\ UNCHANGED <<backend, lazy, produtos, movs, loadVars, inputVars>>
  /\ PageEffects

UpdateProdutoFail(r) ==
  /\ r \in inflight /\ r.op = "updateProduto"
  /\ Done(r, "fail", {})
  /\ UNCHANGED <<backend, lazy, dataVars, loadVars, uiVars>>

(***************************************************************************)
(* deleteProduto (lines 173-181): the response's status is not read.       *)
(***************************************************************************)
DeleteProdutoCall(p) ==
  LET r == Req("deleteProduto", p.id, 0, "none", FALSE, FALSE)
  IN /\ p \in Rows
     /\ CanIssue(r)
     /\ Issue(r, {})
     /\ UNCHANGED <<backend, lazy, dataVars, loadVars, uiVars>>

\* fetch resolved: status is "ok" for a 2xx answer, "fail" for any other
DeleteProdutoResolved(r, status) ==
  /\ r \in inflight /\ r.op = "deleteProduto"
  /\ allProdutos' = RemoveById(allProdutos, r.id)
  /\ movs' = RemoveByProdutoId(movs, r.id)
  /\ Done(r, status, {r.id})
  /\ UNCHANGED <<backend, lazy, produtos, loadVars, inputVars>>
  /\ PageEffects

\* fetch rejected (network error)
DeleteProdutoRejected(r) ==
  /\ r \in inflight /\ r.op = "deleteProduto"
  /\ Done(r, "reject", {})
  /\ UNCHANGED <<backend, lazy, dataVars, loadVars, uiVars>>

(***************************************************************************)
(* addMov (lines 183-199).  MovimentacaoForm is opened from a row of       *)
(* ProdutosTable; AddMovCall is its onSave.                                *)
(***************************************************************************)
AddMovCall(p, tipo) ==
  LET r == Req("addMov", p.id, 0, tipo, FALSE, FALSE)
  IN /\ p \in Rows
     /\ CanIssue(r)
     /\ Issue(r, {})
     /\ UNCHANGED <<backend, lazy, dataVars, loadVars, uiVars>>

\* what is typed in the quantity field of the two movement forms
QuantidadesForm == {0, 1}

\* a submit that the handler of a form has turned down, with or without an alert
Blocked(op, alerted) ==
  [ev |-> IF alerted THEN "alert" ELSE "return", req |-> [NoReq EXCEPT !.op = op]]

\* MovimentacaoForm.submit (lines 1505-1514): a quantity <= 0 returns,
\* anything else is handed to onSave, which is addMov
MovimentacaoFormSubmit(p, tipo, quantidade) ==
  IF quantidade <= 0
  THEN /\ p \in Rows
       /\ last' = Blocked("addMov", FALSE)
       /\ UNCHANGED <<backend, lazy, dataVars, loadVars, uiVars, inflight, nops>>
  ELSE AddMovCall(p, tipo)

\* mutant of AddMovOk: the client adds the quantity of the movement itself
AddMovOkLocalQuantidade(r, mid, produto) ==
  /\ r \in inflight /\ r.op = "addMov"
  /\ mid \notin Ids(movs)
  /\ produto.id = r.id
  /\ movs' = <<Mov(mid, r.id, r.tipo, 1)>> \o movs
  /\ allProdutos' =
       [i \in 1..Len(allProdutos) |->
          IF allProdutos[i].id = r.id
          THEN [allProdutos[i] EXCEPT !.quantidade = @ + 1]
          ELSE allProdutos[i]]
  /\ Done(r, "ok", {produto.id})
  /\ UNCHANGED <<backend, lazy, produtos, loadVars, inputVars>>
  /\ PageEffects

\* the answer is { movimentacao, produto }
AddMovOk(r, mid, produto) ==
  /\ r \in inflight /\ r.op = "addMov"
  /\ mid \notin Ids(movs)
  /\ produto.id = r.id
  /\ movs' = <<Mov(mid, r.id, r.tipo, 1)>> \o movs
  /\ allProdutos' = ReplaceById(allProdutos, produto.id, produto)
  /\ Done(r, "ok", {produto.id})
  /\ UNCHANGED <<backend, lazy, produtos, loadVars, inputVars>>
  /\ PageEffects

\* mutant of AddMovFail: the movement is put in the list although the request failed
AddMovFailKeepsMov(r) ==
  /\ r \in inflight /\ r.op = "addMov"
  /\ movs' = <<Mov(0, r.id, r.tipo, 1)>> \o movs
  /\ Done(r, "fail", {})
  /\ UNCHANGED <<backend, lazy, produtos, allProdutos, loadVars, inputVars>>
  /\ PageEffects

AddMovFail(r) ==
  /\ r \in inflight /\ r.op = "addMov"
  /\ Done(r, "fail", {})
  /\ UNCHANGED <<backend, lazy, dataVars, loadVars, uiVars>>

(***************************************************************************)
(* updateMov (lines 201-228) and deleteMov (lines 230-246), called from    *)
(* ConsultaMovimentacoes, whose edit and delete buttons are disabled on a  *)
(* movement of tipo 'ajuste' (lines 718-741).                              *)
(***************************************************************************)
\* mutant of MovRows: the buttons of every row are enabled
MovRowsAll ==
  IF View = "app" THEN Elems(paginatedMovs) ELSE {}

MovRows ==
  IF View = "app" THEN {m \in Elems(paginatedMovs) : m.tipo /= "ajuste"} ELSE {}

UpdateMovCall(m) ==
  LET r == Req("updateMov", m.produtoId, m.id, m.tipo, FALSE, FALSE)
  IN /\ m \in MovRows
     /\ CanIssue(r)
     /\ Issue(r, {})
     /\ UNCHANGED <<backend, lazy, dataVars, loadVars, uiVars>>

\* MovimentacaoEditForm.handleSubmit (lines 838-845): a quantity <= 0
\* alerts and returns, anything else is handed to onSave, which is updateMov
MovimentacaoEditFormSubmit(m, quantidade) ==
  IF quantidade <= 0
  THEN /\ m \in MovRows
       /\ last' = Blocked("updateMov", TRUE)
       /\ UNCHANGED <<backend, lazy, dataVars, loadVars, uiVars, inflight, nops>>
  ELSE UpdateMovCall(m)

\* the answer is { movimentacaoAtualizada, produtoAtualizado }
UpdateMovOk(r, produtoAtualizado) ==
  /\ r \in inflight /\ r.op = "updateMov"
  /\ produtoAtualizado.id = r.id
  /\ movs' = ReplaceById(movs, r.mid, Mov(r.mid, r.id, r.tipo, 2))
  /\ allProdutos' = ReplaceById(allProdutos, produtoAtualizado.id, produtoAtualizado)
  /\ Done(r, "ok", {produtoAtualizado.id})
  /\ UNCHANGED <<backend, lazy, produtos, loadVars, inputVars>>
  /\ PageEffects

UpdateMovFail(r) ==
  /\ r \in inflight /\ r.op = "updateMov"
  /\ Done(r, "fail", {})
  /\ UNCHANGED <<backend, lazy, dataVars, loadVars, uiVars>>

DeleteMovCall(m) ==
  LET r == Req("deleteMov", m.produtoId, m.id, m.tipo, FALSE, FALSE)
  IN /\ m \in MovRows
     /\ CanIssue(r)
     /\ Issue(r, {})
     /\ UNCHANGED <<backend, lazy, dataVars, loadVars, uiVars>>

\* the answer is { produtoAtualizado }
DeleteMovOk(r, produtoAtualizado) ==
  /\ r \in inflight /\ r.op = "deleteMov"
  /\ produtoAtualizado.id = r.id
  /\ movs' = RemoveById(movs, r.mid)
  /\ allProdutos' = ReplaceById(allProdutos, produtoAtualizado.id, produtoAtualizado)
  /\ Done(r, "ok", {produtoAtualizado.id})
  /\ UNCHANGED <<backend, lazy, produtos, loadVars, inputVars>>
  /\ PageEffects

DeleteMovFail(r) ==
  /\ r \in inflight /\ r.op = "deleteMov"
  /\ Done(r, "fail", {})
  /\ UNCHANGED <<backend, lazy, dataVars, loadVars, uiVars>>

(***************************************************************************)
(* togglePrioritario (lines 249-279), called from the flag button of a row *)
(* with (p.id, !!p.prioritario) (line 1222).                               *)
(***************************************************************************)
\* mutant of TogglePrioritarioCall: the request is sent and the local write
\* is left to the response
TogglePrioritarioCallNoWrite(p) ==
  LET r == Req("toggle", p.id, 0, "none", Truthy(p), p.id \in Ids(allProdutos))
  IN /\ p \in Rows
     /\ CanIssue(r)
     /\ Issue(r, {})
     /\ UNCHANGED <<backend, lazy, dataVars, loadVars, uiVars>>

TogglePrioritarioCall(p) ==
  LET s == Truthy(p)
      r == Req("toggle", p.id, 0, "none", s, p.id \in Ids(allProdutos))
  IN /\ p \in Rows
     /\ CanIssue(r)
     /\ allProdutos' = SetPrioritario(allProdutos, p.id, ~s)
     /\ Issue(r, {p.id})
     /\ UNCHANGED <<backend, lazy, produtos, movs, loadVars, inputVars>>
     /\ PageEffects

\* 2xx: the backend has stored the body of the PATCH, { prioritario:
\* !currentState }; the client does nothing more
TogglePrioritarioOk(r) ==
  /\ r \in inflight /\ r.op = "toggle"
  /\ backend' = [backend EXCEPT ![r.id] = ~r.s]
  /\ Done(r, "ok", {})
  /\ UNCHANGED <<lazy, dataVars, loadVars, uiVars>>

\* mutant of TogglePrioritarioFail: the catch block alerts and does not roll back
TogglePrioritarioFailNoRollback(r) ==
  /\ r \in inflight /\ r.op = "toggle"
  /\ Done(r, "fail", {})
  /\ UNCHANGED <<backend, lazy, dataVars, loadVars, uiVars>>

\* rejected or non-2xx: alert, then the flag is set back to currentState
TogglePrioritarioFail(r) ==
  /\ r \in inflight /\ r.op = "toggle"
  /\ allProdutos' = SetPrioritario(allProdutos, r.id, r.s)
  /\ Done(r, "fail", {r.id})
  /\ UNCHANGED <<backend, lazy, produtos, movs, loadVars, inputVars>>
  /\ PageEffects

(***************************************************************************)
(* The priority checkbox (lines 447-458).                                  *)
(***************************************************************************)
SetMostrarPrioritarios(checked) ==
  /\ View = "app"
  /\ checked /= mostrarPrioritarios
  /\ mostrarPrioritarios' = checked
  /\ UNCHANGED <<backend, lazy, dataVars, loadVars, q, categoriaFilter, mostrarAbaixoMin,
                 debouncedQ, timer, itemsPerPage, movCategoria, inflight, nops>>
  /\ last' = Input
  /\ PageEffects

(***************************************************************************)
(* Relatorios.handleGenerate (lines 1640-1699).  Relatorios is given       *)
(* allProdutos and categoriaFilter; jsPDF is taken to be loaded.  The       *)
(* outcome is kept for the properties: "pdf" with the rows of the table    *)
(* that doc.save writes, or "nada" for the alert that nothing needs        *)
(* restocking.                                                             *)
(***************************************************************************)
ItemsToReorder(prods, categoriaSelecionada) ==
  LET produtosParaRelatorio ==
        IF categoriaSelecionada /= <<>>
        THEN SelectSeq(prods, LAMBDA p :
               Has(p, "categoria") /\ p.categoria = categoriaSelecionada)
        ELSE prods
      abaixo ==
        SelectSeq(produtosParaRelatorio, LAMBDA p :
          Has(p, "estoqueMinimo") /\ p.quantidade < p.estoqueMinimo)
  IN [i \in 1..Len(abaixo) |->
        ("qtdRepor" :> (abaixo[i].estoqueMinimo - abaixo[i].quantidade)) @@ abaixo[i]]

HandleGenerate ==
  LET itemsToReorder == ItemsToReorder(allProdutos, categoriaFilter)
  IN /\ View = "app"
     /\ last' = IF itemsToReorder = <<>>
                THEN [ev |-> "nada", req |-> NoReq, itens |-> <<>>]
                ELSE [ev |-> "pdf", req |-> NoReq, itens |-> itemsToReorder]
     /\ UNCHANGED <<backend, lazy, dataVars, loadVars, uiVars, inflight, nops>>

(***************************************************************************)
(* The application: the loader, the mutations and the priority checkbox.   *)
(***************************************************************************)
Next ==
  \/ \E data \in ListasProdutos : FirstPageOk(data)
  \/ FirstPageFail
  \/ \E a \in ListasProdutos, m \in ListasMovs : FullOk(a, m)
  \/ FullFail
  \/ AddProdutoCall
  \/ \E r \in inflight, i \in PIds : \E n \in ProdutosServidor(i) : AddProdutoOk(r, n)
  \/ \E r \in inflight : AddProdutoFail(r)
  \/ \E p \in Rows : UpdateProdutoCall(p)
  \/ \E r \in inflight : \E n \in ProdutosServidor(r.id) : UpdateProdutoOk(r, n)
  \/ \E r \in inflight : UpdateProdutoFail(r)
  \/ \E p \in Rows : DeleteProdutoCall(p)
  \/ \E r \in inflight, st \in {"ok", "fail"} : DeleteProdutoResolved(r, st)
  \/ \E r \in inflight : DeleteProdutoRejected(r)
  \/ \E p \in Rows, t \in Tipos, qt \in QuantidadesForm : MovimentacaoFormSubmit(p, t, qt)
  \/ \E r \in inflight, mid \in MIds : \E n \in ProdutosServidor(r.id) : AddMovOk(r, mid, n)
  \/ \E r \in inflight : AddMovFail(r)
  \/ \E m \in MovRows, qt \in QuantidadesForm : MovimentacaoEditFormSubmit(m, qt)
  \/ \E r \in inflight : \E n \in ProdutosServidor(r.id) : UpdateMovOk(r, n)
  \/ \E r \in inflight : UpdateMovFail(r)
  \/ \E m \in MovRows : DeleteMovCall(m)
  \/ \E r \in inflight : \E n \in ProdutosServidor(r.id) : DeleteMovOk(r, n)
  \/ \E r \in inflight : DeleteMovFail(r)
  \/ \E p \in Rows : TogglePrioritarioCall(p)
  \/ \E r \in inflight : TogglePrioritarioOk(r)
  \/ \E r \in inflight : TogglePrioritarioFail(r)
  \/ \E c \in BOOLEAN : SetMostrarPrioritarios(c)
  \/ HandleGenerate

Spec == Init /\ [][Next]_vars

(***************************************************************************)
(* The application under the assumption that every fetch of the loader is  *)
(* answered: a fetch that has been sent resolves or rejects, so the step   *)
(* of fetchInitialData that awaits it is eventually taken.                 *)
(***************************************************************************)
FirstPageAnswered == (\E data \in ListasProdutos : FirstPageOk(data)) \/ FirstPageFail

FullAnswered == (\E a \in ListasProdutos, m \in ListasMovs : FullOk(a, m)) \/ FullFail

SpecLive == Spec /\ WF_vars(FirstPageAnswered) /\ WF_vars(FullAnswered)

(***************************************************************************)
(* The filter controls and the debounce timer (SpecUI).  The initial       *)
(* states are the states the loader leaves when both fetches succeed and   *)
(* the server answers with one of ListasUI.  Time passes in steps of       *)
(* TickMs; elapsed is the time since the pending timer was set and stops   *)
(* counting at DEBOUNCE_DELAY, when the timer is due.                      *)
(***************************************************************************)
Exemplo ==
  [id |-> 1, sku |-> <<"A", "1">>, nome |-> <<"B", "a">>, quantidade |-> 10,
   estoqueMinimo |-> 5]
NoLimite ==
  [id |-> 2, sku |-> <<"b", "2">>, nome |-> <<"a", " ", "b">>,
   categoria |-> <<"A", "b">>, quantidade |-> 5, estoqueMinimo |-> 5,
   prioritario |-> TRUE]
SemMinimo ==
  [id |-> 3, sku |-> <<"c", "3">>, nome |-> <<"A", "1", "b">>,
   categoria |-> <<"a">>, quantidade |-> 0, prioritario |-> FALSE]

ListasUI == {<<>>, <<Exemplo>>, <<Exemplo, NoLimite, SemMinimo>>, <<SemMinimo, NoLimite>>}

\* what the user types in the search box
Consultas == {<<>>, <<"a">>, <<" ", "A", "b", " ">>, <<"1">>, <<" ">>}

\* the options of the category select: the categories of allProdutos
categorias == {allProdutos[i].categoria : i \in {j \in 1..Len(allProdutos) : Has(allProdutos[j], "categoria")}}

InitUI ==
  /\ \E lista \in ListasUI :
       /\ produtos = slice(lista, 0, ITEMS_PER_PAGE)
       /\ allProdutos = lista
  /\ movs = <<>>
  /\ loading = FALSE
  /\ loadingAll = FALSE
  /\ error = NoError
  /\ q = <<>>
  /\ categoriaFilter = <<>>
  /\ mostrarAbaixoMin = FALSE
  /\ mostrarPrioritarios = FALSE
  /\ page = 1
  /\ currentPage = 1
  /\ itemsPerPage = 30
  /\ movCategoria = <<>>
  /\ debouncedQ = <<>>
  /\ timer = TimerFor(<<>>)
  /\ fetchPc = "done"
  /\ inflight = {}
  /\ nops = 0
  /\ last = [ev |-> "load", req |-> NoReq]
  /\ backend = [i \in PIds |-> FALSE]
  /\ lazy = LazyInit

\* mutant of SetQ: the pending timer is kept and fires with the new value
SetQKeepsTimer(v) ==
  /\ View = "app"
  /\ v = <<>> \/ ~loadingAll
  /\ v /= q
  /\ q' = v
  /\ timer' = [on |-> TRUE, value |-> v, elapsed |-> IF timer.on THEN timer.elapsed ELSE 0]
  /\ last' = Input
  /\ UNCHANGED <<backend, lazy, dataVars, loadVars, categoriaFilter, mostrarAbaixoMin,
                 mostrarPrioritarios, debouncedQ, itemsPerPage, movCategoria, inflight, nops>>
  /\ PageEffects

\* onChange of the search box (disabled while loadingAll) and the Limpar
\* button; the render that follows runs the cleanup of useDebounce's effect
\* (clearTimeout) and the effect again (setTimeout)
SetQ(v) ==
  /\ View = "app"
  /\ v = <<>> \/ ~loadingAll
  /\ v /= q
  /\ q' = v
  /\ timer' = TimerFor(v)
  /\ last' = Input
  /\ UNCHANGED <<backend, lazy, dataVars, loadVars, categoriaFilter, mostrarAbaixoMin,
                 mostrarPrioritarios, debouncedQ, itemsPerPage, movCategoria, inflight, nops>>
  /\ PageEffects

\* time passes while a timer is pending
Tick ==
  /\ timer.on
  /\ timer.elapsed < DEBOUNCE_DELAY
  /\ timer' = [timer EXCEPT !.elapsed =
                 IF timer.elapsed + TickMs < DEBOUNCE_DELAY
                 THEN timer.elapsed + TickMs ELSE DEBOUNCE_DELAY]
  /\ last' = [ev |-> "tick", req |-> NoReq]
  /\ UNCHANGED <<backend, lazy, dataVars, loadVars, q, categoriaFilter, mostrarAbaixoMin,
                 mostrarPrioritarios, debouncedQ, itemsPerPage, movCategoria, page,
                 currentPage, inflight, nops>>

\* the setTimeout callback: setDebouncedValue(value)
TimerFire ==
  /\ timer.on
  /\ timer.elapsed >= DEBOUNCE_DELAY
  /\ debouncedQ' = timer.value
  /\ timer' = TimerOff
  /\ last' = [ev |-> "timer", req |-> NoReq]
  /\ UNCHANGED <<backend, lazy, dataVars, loadVars, q, categoriaFilter, mostrarAbaixoMin,
                 mostrarPrioritarios, itemsPerPage, movCategoria, inflight, nops>>
  /\ PageEffects

SetCategoriaFilter(c) ==
  /\ View = "app"
  /\ c /= categoriaFilter
  /\ c = <<>> \/ c \in categorias
  /\ categoriaFilter' = c
  /\ last' = Input
  /\ UNCHANGED <<backend, lazy, dataVars, loadVars, q, mostrarAbaixoMin, mostrarPrioritarios,
                 debouncedQ, timer, itemsPerPage, movCategoria, inflight, nops>>
  /\ PageEffects

SetMostrarAbaixoMin(checked) ==
  /\ View = "app"
  /\ checked /= mostrarAbaixoMin
  /\ mostrarAbaixoMin' = checked
  /\ last' = Input
  /\ UNCHANGED <<backend, lazy, dataVars, loadVars, q, categoriaFilter, mostrarPrioritarios,
                 debouncedQ, timer, itemsPerPage, movCategoria, inflight, nops>>
  /\ PageEffects

NextUI ==
  \/ \E v \in Consultas : SetQ(v)
  \/ Tick
  \/ TimerFire
  \/ \E c \in {<<>>} \cup categorias : SetCategoriaFilter(c)
  \/ \E c \in BOOLEAN : SetMostrarAbaixoMin(c)
  \/ \E c \in BOOLEAN : SetMostrarPrioritarios(c)

SpecUI == InitUI /\ [][NextUI]_vars

(***************************************************************************)
(* Pagination (SpecPaginacao): the product table and the movement table    *)
(* over lists long enough to fill several pages.  The initial states are   *)
(* the states the loader leaves when both fetches succeed, with a long     *)
(* product list and no movement, or three products and a long movement     *)
(* list.                                                                   *)
(***************************************************************************)
\* the options of the "Itens por pag." select
ItemsPerPageOptions == {30, 70, 100}

LensProdutos ==
  {0, 1} \cup {k * ITEMS_PER_PAGE + d : k \in {1, MaxPaginas}, d \in {-1, 0, 1}}
LensMovs == {0, 31, 70, 100, 141}

ProdutoN(i) ==
  [id |-> i, sku |-> <<"s">>, nome |-> <<"n">>,
   categoria |-> IF i % 2 = 1 THEN <<"a">> ELSE <<"b">>,
   quantidade |-> i % 3, estoqueMinimo |-> 1, prioritario |-> (i % 3 = 0)]

InitPaginacao ==
  /\ \E n \in LensProdutos \cup {3}, k \in LensMovs :
       /\ n = 3 \/ k = 0
       /\ allProdutos = [i \in 1..n |-> ProdutoN(i)]
       /\ produtos = slice(allProdutos, 0, ITEMS_PER_PAGE)
       /\ movs = [m \in 1..k |-> Mov(m, (m % 3) + 1, "entrada", 1)]
  /\ loading = FALSE
  /\ loadingAll = FALSE
  /\ error = NoError
  /\ q = <<>>
  /\ categoriaFilter = <<>>
  /\ mostrarAbaixoMin = FALSE
  /\ mostrarPrioritarios = FALSE
  /\ page = 1
  /\ currentPage = 1
  /\ itemsPerPage = 30
  /\ movCategoria = <<>>
  /\ debouncedQ = <<>>
  /\ timer = TimerFor(<<>>)
  /\ fetchPc = "done"
  /\ inflight = {}
  /\ nops = 0
  /\ last = [ev |-> "load", req |-> NoReq]
  /\ backend = [i \in PIds |-> FALSE]
  /\ lazy = LazyInit

\* a click in Paginacao asking for page pg, kept for the properties
Click(op, pg) == [ev |-> "page", req |-> [NoReq EXCEPT !.op = op, !.id = pg]]

\* mutant of PageClick: handlePageClick passes every page on
PageClickUnguarded(pg) ==
  LET totalPages == TotalPages(Len(filteredProdutos), ITEMS_PER_PAGE)
  IN /\ View = "app" /\ ~loading /\ ~loadingAll
     /\ totalPages > 1
     /\ page' = pg
     /\ last' = Click("page", pg)
     /\ UNCHANGED <<backend, lazy, dataVars, loadVars, inputVars, currentPage, inflight, nops>>

\* Paginacao.handlePageClick under the product table: the Anterior button
\* asks for page - 1, the Proxima button for page + 1, a number for itself
PageClick(pg) ==
  LET totalPages == TotalPages(Len(filteredProdutos), ITEMS_PER_PAGE)
  IN /\ View = "app" /\ ~loading /\ ~loadingAll
     /\ totalPages > 1
     /\ page' = IF pg < 1 \/ pg > totalPages \/ pg = page THEN page ELSE pg
     /\ last' = Click("page", pg)
     /\ UNCHANGED <<backend, lazy, dataVars, loadVars, inputVars, currentPage, inflight, nops>>

\* Paginacao.handlePageClick under the movement table
MovPageClick(pg) ==
  LET totalPages == TotalPages(Len(filteredMovs), itemsPerPage)
  IN /\ View = "app"
     /\ totalPages > 1
     /\ currentPage' =
          IF pg < 1 \/ pg > totalPages \/ pg = currentPage THEN currentPage ELSE pg
     /\ last' = Click("movPage", pg)
     /\ UNCHANGED <<backend, lazy, dataVars, loadVars, inputVars, page, inflight, nops>>

SetItemsPerPage(n) ==
  /\ View = "app"
  /\ n /= itemsPerPage
  /\ itemsPerPage' = n
  /\ last' = Input
  /\ UNCHANGED <<backend, lazy, dataVars, loadVars, q, categoriaFilter, mostrarAbaixoMin,
                 mostrarPrioritarios, debouncedQ, timer, movCategoria,
                 inflight, nops>>
  /\ PageEffects

\* the category select of ConsultaMovimentacoes
SetMovCategoria(c) ==
  /\ View = "app"
  /\ c /= movCategoria
  /\ c = <<>> \/ c \in categorias
  /\ movCategoria' = c
  /\ last' = Input
  /\ UNCHANGED <<backend, lazy, dataVars, loadVars, q, categoriaFilter, mostrarAbaixoMin,
                 mostrarPrioritarios, debouncedQ, timer, itemsPerPage,
                 inflight, nops>>
  /\ PageEffects

NextPaginacao ==
  \/ \E pg \in 0..(TotalPages(Len(filteredProdutos), ITEMS_PER_PAGE) + 1) : PageClick(pg)
  \/ \E pg \in 0..(TotalPages(Len(filteredMovs), itemsPerPage) + 1) : MovPageClick(pg)
  \/ \E n \in ItemsPerPageOptions : SetItemsPerPage(n)
  \/ \E c \in {<<>>} \cup categorias : SetCategoriaFilter(c)
  \/ \E c \in {<<>>} \cup categorias : SetMovCategoria(c)
  \/ \E c \in BOOLEAN : SetMostrarAbaixoMin(c)
  \/ \E c \in BOOLEAN : SetMostrarPrioritarios(c)

SpecPaginacao == InitPaginacao /\ [][NextPaginacao]_vars

(***************************************************************************)
(* The priority flag against the backend (SpecToggle).  The initial states *)
(* are the states the loader leaves when both fetches succeed; the backend *)
(* holds the flags it has sent.  Only the flag buttons and the priority    *)
(* checkbox are used, so that no other client request writes a product.    *)
(***************************************************************************)
InitToggle ==
  /\ \E lista \in ListasProdutos \ {<<>>} :
       /\ produtos = lista
       /\ allProdutos = lista
  /\ movs = <<>>
  /\ loading = FALSE
  /\ loadingAll = FALSE
  /\ error = NoError
  /\ q = <<>>
  /\ categoriaFilter = <<>>
  /\ mostrarAbaixoMin = FALSE
  /\ mostrarPrioritarios = FALSE
  /\ page = 1
  /\ currentPage = 1
  /\ itemsPerPage = 30
  /\ movCategoria = <<>>
  /\ debouncedQ = <<>>
  /\ timer = TimerFor(<<>>)
  /\ fetchPc = "done"
  /\ inflight = {}
  /\ nops = 0
  /\ last = [ev |-> "load", req |-> NoReq]
  /\ backend = [i \in PIds |-> FALSE]
  /\ lazy = LazyInit

NextToggle ==
  \/ \E p \in Rows : TogglePrioritarioCall(p)
  \/ \E r \in inflight : TogglePrioritarioOk(r)
  \/ \E r \in inflight : TogglePrioritarioFail(r)
  \/ \E c \in BOOLEAN : SetMostrarPrioritarios(c)

SpecToggle == InitToggle /\ [][NextToggle]_vars

(***************************************************************************)
(* The mutations once the full dataset has loaded (SpecLoaded).  The       *)
(* initial states are the states the loader leaves when both fetches       *)
(* succeed with answers in which every movement references a product of    *)
(* the product list; every request is issued after the load.               *)
(***************************************************************************)
Orfaos(ms, ps) == {i \in 1..Len(ms) : ms[i].produtoId \notin Ids(ps)}

InitLoaded ==
  /\ \E lista \in ListasProdutos, ms \in ListasMovs :
       /\ Orfaos(ms, lista) = {}
       /\ produtos = lista
       /\ allProdutos = lista
       /\ movs = ms
  /\ loading = FALSE
  /\ loadingAll = FALSE
  /\ error = NoError
  /\ q = <<>>
  /\ categoriaFilter = <<>>
  /\ mostrarAbaixoMin = FALSE
  /\ mostrarPrioritarios = FALSE
  /\ page = 1
  /\ currentPage = 1
  /\ itemsPerPage = 30
  /\ movCategoria = <<>>
  /\ debouncedQ = <<>>
  /\ timer = TimerFor(<<>>)
  /\ fetchPc = "done"
  /\ inflight = {}
  /\ nops = 0
  /\ last = [ev |-> "load", req |-> NoReq]
  /\ backend = [i \in PIds |-> FALSE]
  /\ lazy = LazyInit

NextLoaded ==
  \/ \E p \in Rows : UpdateProdutoCall(p)
  \/ \E r \in inflight : \E n \in ProdutosServidor(r.id) : UpdateProdutoOk(r, n)
  \/ \E r \in inflight : UpdateProdutoFail(r)
  \/ \E p \in Rows : DeleteProdutoCall(p)
  \/ \E r \in inflight, st \in {"ok", "fail"} : DeleteProdutoResolved(r, st)
  \/ \E r \in inflight : DeleteProdutoRejected(r)
  \/ \E p \in Rows, t \in Tipos, qt \in QuantidadesForm : MovimentacaoFormSubmit(p, t, qt)
  \/ \E r \in inflight, mid \in MIds : \E n \in ProdutosServidor(r.id) : AddMovOk(r, mid, n)
  \/ \E r \in inflight : AddMovFail(r)
  \/ \E m \in MovRows, qt \in QuantidadesForm : MovimentacaoEditFormSubmit(m, qt)
  \/ \E r \in inflight : \E n \in ProdutosServidor(r.id) : UpdateMovOk(r, n)
  \/ \E r \in inflight : UpdateMovFail(r)
  \/ \E m \in MovRows : DeleteMovCall(m)
  \/ \E r \in inflight : \E n \in ProdutosServidor(r.id) : DeleteMovOk(r, n)
  \/ \E r \in inflight : DeleteMovFail(r)
  \/ \E p \in Rows : TogglePrioritarioCall(p)
  \/ \E r \in inflight : TogglePrioritarioOk(r)
  \/ \E r \in inflight : TogglePrioritarioFail(r)

SpecLoaded == InitLoaded /\ [][NextLoaded]_vars

(***************************************************************************)
(* Pagination under mutations (SpecPagMut): lists that fill more than one  *)
(* page, which the answers of addProduto, deleteProduto, addMov and        *)
(* deleteMov lengthen and shorten while the user changes page, page size   *)
(* and the priority filter.  The buttons used are those of the first row   *)
(* of the page displayed; the backend answers 2xx and numbers what it      *)
(* creates from NovoId on.                                                 *)
(***************************************************************************)
LensPagMut == {ITEMS_PER_PAGE + 1, 2 * ITEMS_PER_PAGE + 1}

\* the id the backend gives to the product or movement it creates
NovoId == 1000 + nops

InitPagMut ==
  /\ \E n \in LensPagMut \cup {3}, k \in LensPagMut \cup {0} :
       /\ (n = 3) /= (k = 0)
       /\ allProdutos = [i \in 1..n |-> ProdutoN(i)]
       /\ produtos = slice(allProdutos, 0, ITEMS_PER_PAGE)
       /\ movs = [m \in 1..k |-> Mov(m, (m % 3) + 1, "entrada", 1)]
  /\ loading = FALSE
  /\ loadingAll = FALSE
  /\ error = NoError
  /\ q = <<>>
  /\ categoriaFilter = <<>>
  /\ mostrarAbaixoMin = FALSE
  /\ mostrarPrioritarios = FALSE
  /\ page = 1
  /\ currentPage = 1
  /\ itemsPerPage = 30
  /\ movCategoria = <<>>
  /\ debouncedQ = <<>>
  /\ timer = TimerFor(<<>>)
  /\ fetchPc = "done"
  /\ inflight = {}
  /\ nops = 0
  /\ last = [ev |-> "load", req |-> NoReq]
  /\ backend = [i \in PIds |-> FALSE]
  /\ lazy = LazyInit

\* the first row of a table
Primeira(rows) == IF rows = <<>> THEN {} ELSE {rows[1]}

NextPagMut ==
  \/ \E pg \in 0..(TotalPages(Len(filteredProdutos), ITEMS_PER_PAGE) + 1) : PageClick(pg)
  \/ \E pg \in 0..(TotalPages(Len(filteredMovs), itemsPerPage) + 1) : MovPageClick(pg)
  \/ \E n \in ItemsPerPageOptions : SetItemsPerPage(n)
  \/ \E c \in BOOLEAN : SetMostrarPrioritarios(c)
  \/ AddProdutoCall
  \/ \E r \in inflight : AddProdutoOk(r, ProdutoN(NovoId))
  \/ \E p \in Primeira(paginatedProdutos) : DeleteProdutoCall(p)
  \/ \E r \in inflight : DeleteProdutoResolved(r, "ok")
  \/ \E p \in Primeira(paginatedProdutos) : MovimentacaoFormSubmit(p, "entrada", 1)
  \/ \E r \in inflight : AddMovOk(r, NovoId, ProdutoN(r.id))
  \/ \E m \in Primeira(paginatedMovs) : DeleteMovCall(m)
  \/ \E r \in inflight : DeleteMovOk(r, ProdutoN(r.id))

SpecPagMut == InitPagMut /\ [][NextPagMut]_vars

(***************************************************************************)
(* The lazy-load revision of App (SpecLazy, lines 1899-1975 and            *)
(* 2232-2245): fetchInitialData fetches page 1 with the movements, and     *)
(* handleLoadMore fetches the page after the last one each time the user   *)
(* asks for more.  lazy.pedidos holds the nextPage of every call of        *)
(* handleLoadMore that awaits its answer.  The products of page k are      *)
(* numbered from (k - 1) * ITEMS_PER_PAGE_LAZY + 1 on.                     *)
(***************************************************************************)
appVars == <<produtos, allProdutos, movs, loading, loadingAll, error, q,
             categoriaFilter, mostrarAbaixoMin, mostrarPrioritarios, page,
             currentPage, itemsPerPage, movCategoria, debouncedQ, timer, fetchPc,
             inflight, nops, backend>>

\* how many products the backend has for a page asked with _limit=25
LensPagina == {0, 1, ITEMS_PER_PAGE_LAZY - 1, ITEMS_PER_PAGE_LAZY}

\* GET /api/produtos?_page=k&_limit=25 answering n products
Pagina(k, n) == [i \in 1..n |-> ProdutoN((k - 1) * ITEMS_PER_PAGE_LAZY + i)]

\* what a lazy-load handler leaves in last: the page and the number of
\* products of the answer it has handled
Lazy(ev, k, n) == [ev |-> ev, req |-> [NoReq EXCEPT !.op = "lazy", !.id = k, !.mid = n]]

\* the stock screen is rendered (lines 2121-2135)
LazyView == IF lazy.initialLoading THEN "loading"
            ELSE IF lazy.error /= NoError THEN "error" ELSE lazy.view

\* fetchInitialData (lines 1914-1942): both answers 2xx
LazyFetchOk(n, movsData) ==
  /\ lazy.fetchPc = "first"
  /\ lazy' = [lazy EXCEPT !.produtos = Pagina(1, n),
                          !.movs = movsData,
                          !.hasMore = IF n < ITEMS_PER_PAGE_LAZY THEN FALSE ELSE @,
                          !.initialLoading = FALSE,
                          !.fetchPc = "done",
                          !.paginas = Append(@, 1)]
  /\ last' = Lazy("lazyLoad", 1, n)
  /\ UNCHANGED appVars

\* fetchInitialData: a fetch rejects or answers non-2xx
LazyFetchFail ==
  /\ lazy.fetchPc = "first"
  /\ lazy' = [lazy EXCEPT !.error = ErroInicial,
                          !.initialLoading = FALSE,
                          !.fetchPc = "done"]
  /\ last' = Lazy("lazyFail", 1, 0)
  /\ UNCHANGED appVars

\* the Estoque and Movimentacoes buttons of the header
LazySetView(v) ==
  /\ LazyView \in {"estoque", "movimentacoes"}
  /\ v /= lazy.view
  /\ lazy' = [lazy EXCEPT !.view = v]
  /\ last' = Lazy("view", 0, 0)
  /\ UNCHANGED appVars

\* mutant of HandleLoadMore: the handler does not look at loadingMore and hasMore
HandleLoadMoreUnguarded ==
  /\ LazyView = "estoque"
  /\ lazy.page + Len(lazy.pedidos) < MaxLazyPage
  /\ lazy' = [lazy EXCEPT !.loadingMore = TRUE, !.pedidos = Append(@, lazy.page + 1)]
  /\ last' = Lazy("more", lazy.page + 1, 0)
  /\ UNCHANGED appVars

\* handleLoadMore up to its await (lines 1952-1959).  The button that calls
\* it is rendered when hasMore and not loadingMore (lines 2234-2241); the
\* call is taken in every state of the stock screen, so that the first line
\* of the handler decides.
HandleLoadMore ==
  /\ LazyView = "estoque"
  /\ lazy.page + Len(lazy.pedidos) < MaxLazyPage
  /\ IF lazy.loadingMore \/ ~lazy.hasMore
     THEN /\ lazy' = lazy
          /\ last' = Lazy("return", lazy.page + 1, 0)
     ELSE /\ lazy' = [lazy EXCEPT !.loadingMore = TRUE,
                                  !.pedidos = Append(@, lazy.page + 1)]
          /\ last' = Lazy("more", lazy.page + 1, 0)
  /\ UNCHANGED appVars

\* the sequence without its i-th element
SemIndice(seq, i) == SubSeq(seq, 1, i - 1) \o SubSeq(seq, i + 1, Len(seq))

\* handleLoadMore after its await, answer 2xx with n products (lines 1960-1974)
LoadMoreOk(i, n) ==
  /\ i \in 1..Len(lazy.pedidos)
  /\ LET nextPage == lazy.pedidos[i]
     IN /\ lazy' = [lazy EXCEPT !.produtos = @ \o Pagina(nextPage, n),
                                !.page = nextPage,
                                !.hasMore = IF n < ITEMS_PER_PAGE_LAZY THEN FALSE ELSE @,
                                !.loadingMore = FALSE,
                                !.pedidos = SemIndice(@, i),
                                !.paginas = Append(@, nextPage)]
        /\ last' = Lazy("moreOk", nextPage, n)
  /\ UNCHANGED appVars

\* handleLoadMore after its await: the fetch rejects or answers non-2xx
LoadMoreFail(i) ==
  /\ i \in 1..Len(lazy.pedidos)
  /\ lazy' = [lazy EXCEPT !.loadingMore = FALSE, !.pedidos = SemIndice(@, i)]
  /\ last' = Lazy("moreFail", lazy.pedidos[i], 0)
  /\ UNCHANGED appVars

NextLazy ==
  \/ \E n \in LensPagina, m \in ListasMovs : LazyFetchOk(n, m)
  \/ LazyFetchFail
  \/ \E v \in {"estoque", "movimentacoes"} : LazySetView(v)
  \/ HandleLoadMore
  \/ \E i \in 1..Len(lazy.pedidos), n \in LensPagina : LoadMoreOk(i, n)
  \/ \E i \in 1..Len(lazy.pedidos) : LoadMoreFail(i)

SpecLazy == Init /\ [][NextLazy]_vars

(***************************************************************************)
(* The page-number strip of Paginacao (SpecStrip, lines 1775-1820), over   *)
(* movement lists of 2 to MaxTotalPages pages.  The initial states are the *)
(* states the loader leaves when both fetches succeed.                     *)
(***************************************************************************)
\* the entry '...' of pageNumbers; the other entries are page numbers, from 1 on
Reticencias == 0

\* mutant of RenderPageNumbers: the first ellipsis is pushed when startPage > 3
RenderPageNumbersLateEllipsis(current, totalPages) ==
  LET pagesToShow == 3
      porBaixo == current <= 3
      porCima == current >= totalPages - 2
      startPage ==
        IF porCima THEN totalPages - 2
        ELSE IF porBaixo THEN 2
        ELSE IF current - 1 > 2 THEN current - 1 ELSE 2
      endPage ==
        IF porCima THEN totalPages - 1
        ELSE IF porBaixo THEN 3
        ELSE IF current + 1 < totalPages - 1 THEN current + 1 ELSE totalPages - 1
  IN IF totalPages <= pagesToShow + 4
     THEN [i \in 1..totalPages |-> i]
     ELSE <<1>>
          \o (IF startPage > 3 THEN <<Reticencias>> ELSE <<>>)
          \o [i \in 1..(endPage - startPage + 1) |-> startPage + i - 1]
          \o (IF endPage < totalPages - 1 THEN <<Reticencias>> ELSE <<>>)
          \o <<totalPages>>

\* renderPageNumbers: the array pageNumbers; current is the prop
\* currentPage.  The two ifs on it run in the order of the code, the second
\* overriding the first.
RenderPageNumbers(current, totalPages) ==
  LET pagesToShow == 3
      porBaixo == current <= 3
      porCima == current >= totalPages - 2
      startPage ==
        IF porCima THEN totalPages - 2
        ELSE IF porBaixo THEN 2
        ELSE IF current - 1 > 2 THEN current - 1 ELSE 2
      endPage ==
        IF porCima THEN totalPages - 1
        ELSE IF porBaixo THEN 3
        ELSE IF current + 1 < totalPages - 1 THEN current + 1 ELSE totalPages - 1
  IN IF totalPages <= pagesToShow + 4
     THEN [i \in 1..totalPages |-> i]
     ELSE <<1>>
          \o (IF startPage > 2 THEN <<Reticencias>> ELSE <<>>)
          \o [i \in 1..(endPage - startPage + 1) |-> startPage + i - 1]
          \o (IF endPage < totalPages - 1 THEN <<Reticencias>> ELSE <<>>)
          \o <<totalPages>>

\* what Paginacao renders: nothing when totalPages <= 1
Strip(current, totalItems, size) ==
  LET totalPages == TotalPages(totalItems, size)
  IN IF totalPages <= 1 THEN <<>> ELSE RenderPageNumbers(current, totalPages)

\* the strip under the product table and the strip under the movement table
pageNumbers == Strip(page, Len(filteredProdutos), ITEMS_PER_PAGE)
movPageNumbers == Strip(currentPage, Len(filteredMovs), itemsPerPage)

LensStrip == {(k - 1) * ITEMS_PER_PAGE + 1 : k \in 2..MaxTotalPages}

InitStrip ==
  /\ \E k \in LensStrip :
       /\ allProdutos = [i \in 1..3 |-> ProdutoN(i)]
       /\ produtos = allProdutos
       /\ movs = [m \in 1..k |-> Mov(m, (m % 3) + 1, "entrada", 1)]
  /\ loading = FALSE
  /\ loadingAll = FALSE
  /\ error = NoError
  /\ q = <<>>
  /\ categoriaFilter = <<>>
  /\ mostrarAbaixoMin = FALSE
  /\ mostrarPrioritarios = FALSE
  /\ page = 1
  /\ currentPage = 1
  /\ itemsPerPage = 30
  /\ movCategoria = <<>>
  /\ debouncedQ = <<>>
  /\ timer = TimerFor(<<>>)
  /\ fetchPc = "done"
  /\ inflight = {}
  /\ nops = 0
  /\ last = [ev |-> "load", req |-> NoReq]
  /\ backend = [i \in PIds |-> FALSE]
  /\ lazy = LazyInit

\* the numbers of the strip are its buttons
NextStrip ==
  \/ \E pg \in 1..TotalPages(Len(filteredMovs), itemsPerPage) : MovPageClick(pg)
  \/ \E n \in ItemsPerPageOptions : SetItemsPerPage(n)

SpecStrip == InitStrip /\ [][NextStrip]_vars

(***************************************************************************)
(* Properties of the application (Spec).                                   *)
(***************************************************************************)
Flag(id) == {Truthy(allProdutos[i]) : i \in {j \in 1..Len(allProdutos) : allProdutos[j].id = id}}

\* C1: a togglePrioritario(id, s) of a cached product whose flag is s,
\* followed by the failure of its PATCH, leaves the cached flag equal to s;
\* followed by its success (no other handler having written that entry in
\* between), leaves the cached flag equal to NOT s.
C1_ToggleRoundTrip ==
  (last.req.op = "toggle" /\ last.ev \in {"ok", "fail"}) =>
    /\ (last.ev = "fail" => Flag(last.req.id) \subseteq {last.req.s})
    /\ (last.ev = "ok" /\ last.req.clean => Flag(last.req.id) = {~last.req.s})
    /\ (last.ev = "fail" /\ last.req.clean => Flag(last.req.id) = {last.req.s})

C1_Witness ==
  /\ last.req.op = "toggle" /\ last.ev = "fail" /\ last.req.clean
  /\ last.req.s
  /\ Flag(last.req.id) = {TRUE}

MutationOps == {"addProduto", "updateProduto", "addMov", "updateMov", "deleteMov"}

\* C2: the step in which addProduto, updateProduto, addMov, updateMov or
\* deleteMov is called and the step in which its request fails (rejected or
\* non-2xx) leave the product lists and the movement list as they were.
C2_FailureLeavesState ==
  [][(last'.req.op \in MutationOps /\ last'.ev \in {"call", "fail"})
       => UNCHANGED <<produtos, allProdutos, movs>>]_vars

C2_Witness ==
  /\ last.req.op = "updateMov" /\ last.ev = "fail"
  /\ allProdutos /= <<>> /\ movs /= <<>>

\* C3: deleteProduto(id) removes the product and its movements only once the
\* DELETE has been answered 2xx; a call, a rejection and a non-2xx answer
\* leave the product list and the movement list as they were.
C3_DeleteAfterSuccessOnly ==
  [][(last'.req.op = "deleteProduto" /\ last'.ev \in {"call", "fail", "reject"})
       => UNCHANGED <<allProdutos, movs>>]_vars

\* the entry with the id of the server's product is that product, the others are kept
Reconciled(servidor) ==
  /\ Len(allProdutos') = Len(allProdutos)
  /\ \A i \in 1..Len(allProdutos) :
       /\ allProdutos[i].id = servidor.id => allProdutos'[i] = servidor
       /\ allProdutos[i].id /= servidor.id => allProdutos'[i] = allProdutos[i]

\* C4: after a successful addMov or deleteMov response the entry of
\* allProdutos with the id of the server-returned product is exactly that
\* object, and every other entry is unchanged.
C4_MovReconciliation ==
  [][\A r \in inflight : \A servidor \in ProdutosServidor(r.id) :
       ((\E mid \in MIds : AddMovOk(r, mid, servidor)) \/ DeleteMovOk(r, servidor))
         => Reconciled(servidor)]_vars

C4_Witness ==
  /\ last.req.op = "addMov" /\ last.ev = "ok"
  /\ Len(allProdutos) > 1
  /\ \E i \in 1..Len(allProdutos) :
       allProdutos[i].id = last.req.id /\ allProdutos[i].quantidade = 0

\* the products of a list that pass the four criteria, in the order of the list
RECURSIVE Kept(_, _, _, _, _)
Kept(list, query, cat, abaixoMin, prioritarios) ==
  IF list = <<>> THEN <<>>
  ELSE LET p == Head(list)
           text ==
             \/ query = <<>>
             \/ \E f \in {"nome", "sku", "categoria"} \cap DOMAIN p :
                  \E a \in 1..(Len(p[f]) + 1) : \E b \in 0..Len(p[f]) :
                    SubSeq(toLowerCase(p[f]), a, b) = query
           ok ==
             /\ text
             /\ (cat /= <<>> => "categoria" \in DOMAIN p /\ p.categoria = cat)
             /\ (abaixoMin => "estoqueMinimo" \in DOMAIN p /\ p.quantidade <= p.estoqueMinimo)
             /\ (prioritarios => "prioritario" \in DOMAIN p /\ p.prioritario = TRUE)
           rest == Kept(Tail(list), query, cat, abaixoMin, prioritarios)
       IN IF ok THEN <<p>> \o rest ELSE rest

\* C5: the full dataset is applied only from a state in which the first page
\* is displayed (loading false, the displayed list is produtos, which is the
\* first-page response); once the full fetch has succeeded the displayed list
\* is the filter of allProdutos, whatever produtos holds.
C5_LoaderOrdering ==
  /\ [](fetchPc = "second" =>
          ~loading /\ loadingAll /\ View = "app" /\ filteredProdutos = produtos)
  /\ [][fetchPc /= "first" => produtos' = produtos]_vars
  /\ [][(loadingAll /\ ~loadingAll' /\ error' = NoError) => fetchPc = "second"]_vars
  /\ [](fetchPc = "done" /\ error = NoError =>
          /\ ~loading /\ ~loadingAll
          /\ filteredProdutos =
               Kept(allProdutos, toLowerCase(trim(debouncedQ)), categoriaFilter,
                    mostrarAbaixoMin, mostrarPrioritarios))

C5_Witness ==
  /\ fetchPc = "done" /\ error = NoError
  /\ produtos /= <<>>
  /\ Len(allProdutos) > Len(produtos)
  /\ mostrarPrioritarios
  /\ filteredProdutos /= <<>> /\ filteredProdutos /= allProdutos

\* C6: a failure of the first-page fetch or of the full fetch sets error,
\* which replaces the whole view; error is never cleared afterwards, the
\* loader makes no further step and no control is left to issue a request.
C6_LoaderFailureTerminal ==
  /\ [][(FirstPageFail \/ FullFail) => error' /= NoError /\ View' = "error"]_vars
  /\ [][error /= NoError => error' = error /\ fetchPc' = fetchPc /\ nops' = nops]_vars
  /\ [](error /= NoError => fetchPc = "done" /\ Rows = {} /\ MovRows = {})

C6_Witness ==
  /\ error /= NoError /\ fetchPc = "done"
  /\ produtos /= <<>>
  /\ last.ev = "ok"

\* C8 as claimed: for a toggle of a cached product, the cached flag equals
\* NOT s in every state in which its PATCH request is in flight.
C8_NegatedWhileInFlight ==
  \A r \in inflight : (r.op = "toggle" /\ r.cached) => Flag(r.id) \subseteq {~r.s}

\* C8 (amended): for a toggle of a cached product, the cached flag equals
\* NOT s from the state in which the PATCH request is issued on, in every
\* state in which the request is in flight and no other handler has written
\* that product's entry since.
C8_NegatedWhileInFlightUndisturbed ==
  \A r \in inflight : (r.op = "toggle" /\ r.clean) => Flag(r.id) = {~r.s}

C8_Witness ==
  \E r \in inflight : r.op = "toggle" /\ r.clean /\ r.s /\ Flag(r.id) = {FALSE}

(***************************************************************************)
(* Properties of the filter and of the debounce timer (SpecUI).            *)
(***************************************************************************)
\* C7: once the full dataset has loaded, the filtered list is exactly the
\* products of allProdutos, in their order, whose lower-cased nome, sku or
\* categoria contains the trimmed lower-cased query (or the query is empty),
\* whose categoria is the selected one (or none is selected), which have a
\* minimum and quantidade <= estoqueMinimo (or the flag is off), and whose
\* prioritario is true (or the flag is off); the product with quantidade 10
\* and estoqueMinimo 5 alone is filtered out when the below-minimum flag is
\* set and is back when it is cleared.
C7_FilterExactness ==
  ~loadingAll =>
    /\ filteredProdutos =
         Kept(allProdutos, toLowerCase(trim(debouncedQ)), categoriaFilter,
              mostrarAbaixoMin, mostrarPrioritarios)
    /\ (/\ allProdutos = <<Exemplo>> /\ trim(debouncedQ) = <<>>
        /\ categoriaFilter = <<>> /\ ~mostrarPrioritarios)
         => filteredProdutos = IF mostrarAbaixoMin THEN <<>> ELSE <<Exemplo>>

C7_Witness ==
  /\ ~loadingAll /\ mostrarAbaixoMin
  /\ trim(debouncedQ) /= <<>> /\ debouncedQ /= toLowerCase(trim(debouncedQ))
  /\ categoriaFilter /= <<>>
  /\ filteredProdutos = <<NoLimite>>
  /\ Len(allProdutos) > 2

\* C9: the debounced value changes only when the timer is due, DEBOUNCE_DELAY
\* (500 ms) after the last change of the search input, and only to the
\* current input; every change of the input cancels the pending timer and
\* sets a new one from zero; the timer fires once and is then off, so a
\* burst of changes ends in one update with the final value.
C9_Debounce ==
  /\ DEBOUNCE_DELAY = 500
  /\ [](timer.on => timer.value = q)
  /\ [](~timer.on => debouncedQ = q)
  /\ [](timer.on /\ timer.elapsed >= DEBOUNCE_DELAY => ENABLED TimerFire)
  /\ [][q' /= q => timer' = TimerFor(q') /\ debouncedQ' = debouncedQ]_vars
  /\ [][debouncedQ' /= debouncedQ =>
          /\ timer.on /\ timer.elapsed >= DEBOUNCE_DELAY
          /\ q' = q /\ debouncedQ' = q]_vars
  /\ [][timer.on /\ ~timer'.on => debouncedQ' = q /\ q' = q]_vars
  /\ [][~timer.on /\ q' = q => debouncedQ' = debouncedQ /\ ~timer'.on]_vars

C9_Witness ==
  /\ last.ev = "timer"
  /\ ~timer.on
  /\ debouncedQ = <<" ", "A", "b", " ">>
  /\ q = debouncedQ

(***************************************************************************)
(* Properties of the pagination (SpecPaginacao).                           *)
(***************************************************************************)
RECURSIVE PaginasProdutos(_, _, _)
PaginasProdutos(list, p, total) ==
  IF p > total THEN <<>>
  ELSE PaginatedProdutos(list, p) \o PaginasProdutos(list, p + 1, total)

RECURSIVE PaginasMovs(_, _, _, _)
PaginasMovs(list, size, p, total) ==
  IF p > total THEN <<>>
  ELSE PaginatedMovs(list, p, size) \o PaginasMovs(list, size, p + 1, total)

\* C10: the pages 1..ceil(N/S) of the filtered product list (S =
\* ITEMS_PER_PAGE) and of the filtered movement list (S = itemsPerPage),
\* concatenated in page order, are the filtered list, and none of these
\* pages is empty.
C10_PaginationPartitions ==
  LET np == TotalPages(Len(filteredProdutos), ITEMS_PER_PAGE)
      nm == TotalPages(Len(filteredMovs), itemsPerPage)
  IN /\ np * ITEMS_PER_PAGE >= Len(filteredProdutos)
     /\ (np - 1) * ITEMS_PER_PAGE < Len(filteredProdutos) \/ np = 0
     /\ PaginasProdutos(filteredProdutos, 1, np) = filteredProdutos
     /\ \A p \in 1..np : PaginatedProdutos(filteredProdutos, p) /= <<>>
     /\ PaginasMovs(filteredMovs, itemsPerPage, 1, nm) = filteredMovs
     /\ \A p \in 1..nm : PaginatedMovs(filteredMovs, p, itemsPerPage) /= <<>>

\* the last page of the movement table holds the one movement left over
C10_WitnessMovs ==
  /\ itemsPerPage = 70
  /\ currentPage = 3
  /\ Len(paginatedMovs) = 1

C10_Witness ==
  /\ Len(filteredProdutos) = ITEMS_PER_PAGE + 1
  /\ page = 2
  /\ Len(paginatedProdutos) = 1

\* ceil(n / size), written without TotalPages
Ceil(n, size) == CHOOSE k \in 0..n : k * size >= n /\ (k = 0 \/ (k - 1) * size < n)

\* C11: a click in Paginacao asking for page p with p < 1, p > totalPages or
\* p = currentPage (Anterior on page 1 and Proxima on the last page
\* included) changes nothing; any other p in 1..totalPages becomes the
\* current page, where totalPages = ceil(totalItems / itemsPerPage).
C11_PageClickGuard ==
  /\ [][last'.req.op = "page" =>
          LET p == last'.req.id
              totalPages == Ceil(Len(filteredProdutos), ITEMS_PER_PAGE)
          IN /\ (p < 1 \/ p > totalPages \/ p = page) => page' = page
             /\ (p >= 1 /\ p <= totalPages /\ p /= page) => page' = p
             /\ UNCHANGED <<dataVars, loadVars, inputVars, currentPage, inflight, nops>>]_vars
  /\ [][last'.req.op = "movPage" =>
          LET p == last'.req.id
              totalPages == Ceil(Len(filteredMovs), itemsPerPage)
          IN /\ (p < 1 \/ p > totalPages \/ p = currentPage) => currentPage' = currentPage
             /\ (p >= 1 /\ p <= totalPages /\ p /= currentPage) => currentPage' = p
             /\ UNCHANGED <<dataVars, loadVars, inputVars, page, inflight, nops>>]_vars

C11_Witness ==
  /\ last.req.op = "page"
  /\ page > 1
  /\ page = Ceil(Len(filteredProdutos), ITEMS_PER_PAGE)
  /\ last.req.id = page + 1

\* C12: whenever the filtered product list is derived again because the
\* debounced query, the category, the below-minimum flag, the priority flag
\* or the product list has changed, the current page is 1 afterwards.
C12_RederivationResetsPage ==
  [][(\/ debouncedQ' /= debouncedQ
      \/ categoriaFilter' /= categoriaFilter
      \/ mostrarAbaixoMin' /= mostrarAbaixoMin
      \/ mostrarPrioritarios' /= mostrarPrioritarios
      \/ allProdutos' /= allProdutos) => page' = 1]_vars

\* C13: whenever the number of items of the filtered product list changes
\* the product page is 1 afterwards, and whenever the number of filtered
\* movements or the page size of the movement table changes the movement
\* page is 1 afterwards.
C13_CountChangeResetsPage ==
  [][/\ Len(filteredProdutos') /= Len(filteredProdutos) => page' = 1
     /\ (Len(filteredMovs') /= Len(filteredMovs) \/ itemsPerPage' /= itemsPerPage)
          => currentPage' = 1]_vars

C13_Witness ==
  /\ last.ev = "input"
  /\ last.req.id > 1
  /\ page = 1
  /\ Len(filteredProdutos) > ITEMS_PER_PAGE

\* the same on the movement table
C13_WitnessMovs ==
  /\ last.ev = "input"
  /\ last.req.mid > 1
  /\ currentPage = 1
  /\ Len(filteredMovs) > itemsPerPage

\* C14: no DELETE /api/movimentacoes/{id} and no PATCH
\* /api/movimentacoes/{id} request is ever issued for a movement whose tipo
\* is 'ajuste': every such request is issued for a cached movement of
\* another tipo, and none in flight was issued for an 'ajuste'.
C14_AjusteNeverDeletedOrEdited ==
  /\ [](\A r \in inflight : r.op \in {"deleteMov", "updateMov"} => r.tipo /= "ajuste")
  /\ [][(last'.ev = "call" /\ last'.req.op \in {"deleteMov", "updateMov"}) =>
          \E i \in 1..Len(movs) :
            /\ movs[i].id = last'.req.mid
            /\ movs[i].tipo = last'.req.tipo
            /\ movs[i].tipo /= "ajuste"]_vars

C14_Witness ==
  /\ \E r \in inflight : r.op = "deleteMov"
  /\ \E r \in inflight : r.op = "updateMov"
  /\ \E m \in Elems(paginatedMovs) : m.tipo = "ajuste"

\* C15: a submit of the movement creation form or of the movement edit
\* form with quantidade <= 0 sends no request, leaves the state unchanged
\* and shows the user an alert.
C15_QuantityValidation ==
  [][last'.ev \in {"return", "alert"} =>
       /\ UNCHANGED <<dataVars, loadVars, uiVars, inflight, nops>>
       /\ last'.ev = "alert"]_vars

\* C16: while the full dataset has not loaded (loadingAll is true) the
\* displayed product list is the first-page list filtered by the current
\* criteria (query, category, below-minimum flag, priority flag).
C16_FilterBeforeFullLoad ==
  loadingAll =>
    filteredProdutos =
      Kept(produtos, toLowerCase(trim(debouncedQ)), categoriaFilter,
           mostrarAbaixoMin, mostrarPrioritarios)

\* the elements of a list whose field f is not v, in the order of the list
RECURSIVE Others(_, _, _)
Others(list, f, v) ==
  IF list = <<>> THEN <<>>
  ELSE IF Head(list)[f] = v THEN Others(Tail(list), f, v)
       ELSE <<Head(list)>> \o Others(Tail(list), f, v)

\* C17: in the step in which deleteProduto(id) is applied, the cached
\* product list loses the product id and the movement list loses the
\* movements with produtoId = id; the products and movements of every other
\* id are kept, unchanged and in their order.
C17_DeleteRemovesMovs ==
  [][(last'.req.op = "deleteProduto" /\ last'.ev \notin {"call", "reject"}) =>
       LET id == last'.req.id
       IN /\ allProdutos' = Others(allProdutos, "id", id)
          /\ movs' = Others(movs, "produtoId", id)
          /\ id \notin Ids(allProdutos')
          /\ \A i \in 1..Len(movs') : movs'[i].produtoId /= id]_vars

C17_Witness ==
  /\ last.req.op = "deleteProduto" /\ last.ev = "ok"
  /\ Len(allProdutos) = 1 /\ Len(movs) = 1
  /\ last.req.id \notin Ids(allProdutos)
  /\ movs[1].produtoId = allProdutos[1].id

\* a is b with some elements left out
RECURSIVE IsSubsequence(_, _)
IsSubsequence(a, b) ==
  IF a = <<>> THEN TRUE
  ELSE IF b = <<>> THEN FALSE
  ELSE IF Head(a) = Head(b) THEN IsSubsequence(Tail(a), Tail(b))
  ELSE IsSubsequence(a, Tail(b))

\* the filter of the current criteria applied to a list
Filtro(L) ==
  FilteredProdutos(loadingAll, L, L, debouncedQ, categoriaFilter,
                   mostrarAbaixoMin, mostrarPrioritarios)

\* C18: for the product list and every filter criteria, filtering the
\* filtered list again gives the filtered list, and the filtered list is a
\* subsequence of the product list (the products kept are in the order they
\* have in the list).
C18_FilterIdempotentOrdered ==
  /\ filteredProdutos = Filtro(allProdutos)
  /\ Filtro(Filtro(allProdutos)) = Filtro(allProdutos)
  /\ IsSubsequence(Filtro(allProdutos), allProdutos)
  /\ \A i, j \in 1..Len(filteredProdutos) :
       i < j =>
         \E a, b \in 1..Len(allProdutos) :
           a < b /\ allProdutos[a] = filteredProdutos[i] /\ allProdutos[b] = filteredProdutos[j]

C18_Witness ==
  /\ Len(allProdutos) = 3
  /\ filteredProdutos = <<allProdutos[1], allProdutos[3]>>
  /\ mostrarAbaixoMin = FALSE

\* the (id, quantidade) pairs of a product list
QtMap(list) == {<<list[i].id, list[i].quantidade>> : i \in 1..Len(list)}

\* C19: the quantidade of every cached product is the quantidade of a
\* product object the server sent; a quantidade enters the cache only in a
\* step that handles a server response (initial fetch or mutation
\* response); togglePrioritario and its rollback change nothing but the
\* prioritario field of the targeted product.
C19_QuantityServerAuthoritative ==
  /\ [](\A p \in Elems(allProdutos) \cup Elems(produtos) :
          \E b \in BOOLEAN : WithPrioritario(p, b) \in ProdutosServidor(p.id))
  /\ [][~(QtMap(allProdutos') \subseteq QtMap(allProdutos)) \/
        ~(QtMap(produtos') \subseteq QtMap(produtos))
          => last'.ev \in {"ok", "load"}]_vars
  /\ [][last'.req.op = "toggle" =>
          /\ produtos' = produtos /\ movs' = movs
          /\ Len(allProdutos') = Len(allProdutos)
          /\ \A i \in 1..Len(allProdutos) :
               /\ allProdutos[i].id /= last'.req.id => allProdutos'[i] = allProdutos[i]
               /\ DOMAIN allProdutos'[i] \subseteq DOMAIN allProdutos[i] \cup {"prioritario"}
               /\ \A f \in DOMAIN allProdutos[i] \ {"prioritario"} :
                    f \in DOMAIN allProdutos'[i] /\ allProdutos'[i][f] = allProdutos[i][f]]_vars

C19_Witness ==
  /\ last.req.op = "toggle" /\ last.ev = "fail" /\ last.req.cached
  /\ Len(allProdutos) = 2
  /\ \E i \in 1..2 : allProdutos[i].id = last.req.id /\ allProdutos[i].quantidade = 0

\* the products of a list that the reorder report is to hold
RECURSIVE Repor(_, _)
Repor(list, cat) ==
  IF list = <<>> THEN <<>>
  ELSE LET p == Head(list)
           listed ==
             /\ (cat = <<>> \/ ("categoria" \in DOMAIN p /\ p.categoria = cat))
             /\ "estoqueMinimo" \in DOMAIN p
             /\ p.quantidade < p.estoqueMinimo
       IN IF listed THEN <<p>> \o Repor(Tail(list), cat) ELSE Repor(Tail(list), cat)

\* C20: whenever the report button is pressed the report lists exactly the
\* products the client has loaded (the first-page list before the full
\* dataset arrives, the complete list afterwards), of the selected category
\* when one is selected, that have a minimum and a quantidade strictly
\* below it; when there is none, no PDF is written and the user is told
\* that nothing needs restocking.
C20_ReportContent ==
  [][last'.ev \in {"pdf", "nada"} =>
       LET loaded == IF loadingAll THEN produtos ELSE allProdutos
           expected == Repor(loaded, categoriaFilter)
       IN /\ expected = <<>> => last'.ev = "nada"
          /\ expected /= <<>> =>
               /\ last'.ev = "pdf"
               /\ Len(last'.itens) = Len(expected)
               /\ \A i \in 1..Len(expected) :
                    \A f \in DOMAIN expected[i] : last'.itens[i][f] = expected[i][f]]_vars

(***************************************************************************)
(* Properties of the mutations against the loader (Spec).                  *)
(***************************************************************************)
\* C22: when the successful response of addProduto, deleteProduto, addMov
\* or deleteMov has been applied while the full fetch is in flight, the
\* effect of the mutation still holds once the full fetch has been applied:
\* the product or movement added is in the list, the one deleted is not.
C22_NoMutationLostToLoader ==
  [][(fetchPc = "second" /\ fetchPc' = "done" /\ error' = NoError /\ last.ev = "ok") =>
       /\ last.req.op = "addProduto" => Head(allProdutos).id \in Ids(allProdutos')
       /\ last.req.op = "deleteProduto" => last.req.id \notin Ids(allProdutos')
       /\ last.req.op = "addMov" => Head(movs).id \in Ids(movs')
       /\ last.req.op = "deleteMov" => last.req.mid \notin Ids(movs')]_vars

\* C23: while the full fetch is in flight (loading false, loadingAll true),
\* for a product displayed from the first page: a togglePrioritario call
\* negates the flag of the product in the displayed list, a successful
\* deleteProduto response removes the product from the displayed list, and
\* a successful updateProduto or addMov response puts the product the
\* server sent in the displayed list.
C23_MutationsVisibleBeforeFullLoad ==
  [][(~loading /\ loadingAll /\ loadingAll') =>
       /\ \A p \in Rows :
            TogglePrioritarioCall(p) =>
              \E i \in 1..Len(filteredProdutos') :
                /\ filteredProdutos'[i].id = p.id
                /\ Truthy(filteredProdutos'[i]) = ~Truthy(p)
       /\ \A r \in inflight :
            r.id \in Ids(filteredProdutos) =>
              /\ DeleteProdutoResolved(r, "ok") => r.id \notin Ids(filteredProdutos')
              /\ \A n \in ProdutosServidor(r.id) :
                   (UpdateProdutoOk(r, n) \/ \E mid \in MIds : AddMovOk(r, mid, n))
                     => n \in Elems(filteredProdutos')]_vars

(***************************************************************************)
(* Properties of the mutations once the full dataset has loaded            *)
(* (SpecLoaded).                                                           *)
(***************************************************************************)
\* C24: the loader having left no movement without its product, every step
\* of a request or of a response of addMov, updateMov, deleteMov and
\* deleteProduto (and of any other handler) leads from a state in which
\* every cached movement references a cached product to a state in which
\* every cached movement references a cached product.
C24_NoOrphanMovements ==
  [][Orfaos(movs, allProdutos) = {} => Orfaos(movs', allProdutos') = {}]_vars

\* C25: once the full dataset has loaded, no step of updateProduto, addMov,
\* updateMov, deleteMov or togglePrioritario (request, response, optimistic
\* write or rollback) puts in the cached product list a product id that
\* was not in it, and neither does a step of deleteProduto, so a product
\* that deleteProduto has removed does not come back with a late response.
C25_NoResurrection ==
  [][last'.req.op \in {"updateProduto", "addMov", "updateMov", "deleteMov", "toggle",
                       "deleteProduto"}
       => /\ Ids(allProdutos') \subseteq Ids(allProdutos)
          /\ Len(allProdutos') <= Len(allProdutos)]_vars

\* the answer of an addMov arrives for a product that has been deleted
C25_Witness ==
  /\ last.req.op = "addMov" /\ last.ev = "ok"
  /\ last.req.id \notin Ids(allProdutos)
  /\ \E i \in 1..Len(movs) : movs[i].produtoId = last.req.id
  /\ allProdutos /= <<>>

\* the rollback of a toggle runs for a product that has been deleted
C25_WitnessRollback ==
  /\ last.req.op = "toggle" /\ last.ev = "fail" /\ last.req.cached
  /\ last.req.id \notin Ids(allProdutos)

(***************************************************************************)
(* Properties of the loader when its fetches are answered (SpecLive).      *)
(***************************************************************************)
\* C28: every fetch being answered, fetchInitialData ends (fetchPc =
\* "done") and loadingAll is eventually false, whether the first page
\* fails, the full fetch fails or both succeed; once false, loadingAll is
\* never true again; and when both have succeeded error is null and stays
\* null and loading is false.
C28_LoaderTerminates ==
  /\ <>(fetchPc = "done" /\ ~loadingAll)
  /\ [](fetchPc = "done" => ~loadingAll)
  /\ [][~loadingAll => ~loadingAll']_vars
  /\ [][(fetchPc = "second" /\ fetchPc' = "done" /\ allProdutos' /= allProdutos)
          => error' = NoError]_vars
  /\ [](fetchPc = "done" /\ error = NoError => ~loading)
  /\ [][fetchPc = "done" => error' = error /\ loading' = loading]_vars

\* the loader has ended by the failure of the full fetch
C28_Witness ==
  /\ fetchPc = "done" /\ ~loadingAll
  /\ error /= NoError
  /\ ~loading
  /\ produtos /= <<>>

\* the loader has ended by the failure of the first fetch
C28_WitnessFirst ==
  /\ fetchPc = "done" /\ ~loadingAll
  /\ error /= NoError
  /\ loading

\* the loader has ended with both fetches answered 2xx
C28_WitnessOk ==
  /\ fetchPc = "done" /\ ~loadingAll
  /\ error = NoError
  /\ Len(allProdutos) = 2 /\ Len(movs) = 2

(***************************************************************************)
(* Properties of the priority flag against the backend (SpecToggle).       *)
(***************************************************************************)
\* C21: whenever no PATCH request of togglePrioritario is in flight (every
\* request issued has completed, in any order, with success or failure),
\* the cached prioritario of every product equals the value the backend
\* stores for it.
C21_TogglesConverge ==
  (\A r \in inflight : r.op /= "toggle") =>
    \A i \in 1..Len(allProdutos) :
      Truthy(allProdutos[i]) = backend[allProdutos[i].id]

(***************************************************************************)
(* Properties of the pagination under mutations (SpecPagMut).              *)
(***************************************************************************)
\* C26: in every state (the page-reset effects having run) the page of the
\* product table and the page of the movement table are at least 1 and at
\* most max(1, ceil(filteredCount / pageSize)), whatever filter changes,
\* page clicks, page-size changes and mutation responses have happened.
C26_PageInRange ==
  LET maxp == Ceil(Len(filteredProdutos), ITEMS_PER_PAGE)
      maxm == Ceil(Len(filteredMovs), itemsPerPage)
  IN /\ 1 <= page
     /\ page <= IF maxp < 1 THEN 1 ELSE maxp
     /\ 1 <= currentPage
     /\ currentPage <= IF maxm < 1 THEN 1 ELSE maxm

\* the answer of a deleteProduto has shortened the list to one page less
C26_Witness ==
  /\ last.req.op = "deleteProduto" /\ last.ev = "ok"
  /\ Len(filteredProdutos) = 2 * ITEMS_PER_PAGE
  /\ last.req.id > 2 * ITEMS_PER_PAGE
  /\ page = 1

\* the answer of a deleteMov has shortened the movement list to one page
C26_WitnessMovs ==
  /\ last.req.op = "deleteMov" /\ last.ev = "ok"
  /\ Len(filteredMovs) = ITEMS_PER_PAGE
  /\ last.req.mid > ITEMS_PER_PAGE
  /\ currentPage = 1

(***************************************************************************)
(* Properties of the lazy-load revision (SpecLazy).                        *)
(***************************************************************************)
\* C27: handleLoadMore changes nothing while a load-more request is in
\* flight or when hasMore is false, so at most one load-more request is in
\* flight at any time; a successful load-more appends the page fetched and
\* adds exactly 1 to page, a failed one leaves page and the list as they
\* were; no page number is put in the product list twice; hasMore becomes
\* false exactly in the steps that handle a fetched page of fewer than
\* ITEMS_PER_PAGE (25) products, and never becomes true again.
C27_LoadMoreSerialized ==
  /\ ITEMS_PER_PAGE_LAZY = 25
  /\ [](Len(lazy.pedidos) <= 1)
  /\ [](lazy.loadingMore <=> lazy.pedidos /= <<>>)
  /\ [][(last'.ev \in {"more", "return"} /\ (lazy.loadingMore \/ ~lazy.hasMore))
          => lazy' = lazy /\ last'.ev = "return"]_vars
  /\ [][last'.ev = "moreOk" =>
          /\ lazy'.page = lazy.page + 1
          /\ lazy'.page = last'.req.id
          /\ lazy'.produtos = lazy.produtos \o Pagina(lazy.page + 1, last'.req.mid)]_vars
  /\ [][last'.ev = "moreFail" =>
          lazy'.page = lazy.page /\ lazy'.produtos = lazy.produtos]_vars
  /\ [][lazy'.page /= lazy.page => last'.ev = "moreOk"]_vars
  /\ [](\A i, j \in 1..Len(lazy.paginas) : i /= j => lazy.paginas[i] /= lazy.paginas[j])
  /\ [][(lazy.hasMore /\ ~lazy'.hasMore) <=>
          /\ lazy.hasMore
          /\ last'.ev \in {"lazyLoad", "moreOk"}
          /\ last'.req.mid < ITEMS_PER_PAGE_LAZY]_vars
  /\ [][~lazy.hasMore => ~lazy'.hasMore]_vars

\* three pages have been fetched one after the other, the last one short
C27_Witness ==
  /\ last.ev = "moreOk"
  /\ lazy.paginas = <<1, 2, 3>>
  /\ lazy.page = 3
  /\ ~lazy.hasMore /\ ~lazy.loadingMore
  /\ Len(lazy.produtos) = 3 * ITEMS_PER_PAGE_LAZY - 1

\* handleLoadMore is called while a load-more request is in flight
C27_WitnessNoOp ==
  /\ last.ev = "return"
  /\ lazy.loadingMore
  /\ lazy.pedidos = <<2>>

(***************************************************************************)
(* Properties of the page-number strip (SpecStrip).                        *)
(***************************************************************************)
\* the strip rendered for page cp of tp pages is well formed
BemFormada(strip, cp, tp) ==
  LET nums == SelectSeq(strip, LAMBDA x : x /= Reticencias)
      N == Len(strip)
  IN /\ \A i \in 1..Len(nums) : nums[i] \in 1..tp
     /\ \A i \in 1..(Len(nums) - 1) : nums[i] < nums[i + 1]
     /\ \E i \in 1..Len(nums) : nums[i] = 1
     /\ \E i \in 1..Len(nums) : nums[i] = tp
     /\ \E i \in 1..Len(nums) : nums[i] = cp
     /\ tp <= 7 => strip = [i \in 1..tp |-> i]
     /\ \A i \in 1..N :
          strip[i] = Reticencias =>
            /\ 1 < i /\ i < N
            /\ strip[i - 1] /= Reticencias /\ strip[i + 1] /= Reticencias
            /\ strip[i + 1] - strip[i - 1] > 1
     /\ \A i \in 1..(N - 1) :
          (strip[i] /= Reticencias /\ strip[i + 1] /= Reticencias)
            => strip[i + 1] = strip[i] + 1

\* C29: whenever Paginacao renders (totalPages >= 2, the current page in
\* 1..totalPages), the page numbers of the strip are strictly increasing,
\* lie in 1..totalPages and include 1, totalPages and the current page; all
\* pages are listed when totalPages <= 7; an ellipsis stands between two
\* listed numbers exactly when at least one page number between them is
\* left out.
C29_StripWellFormed ==
  LET tp == TotalPages(Len(filteredProdutos), ITEMS_PER_PAGE)
      tm == TotalPages(Len(filteredMovs), itemsPerPage)
  IN /\ (tp >= 2 /\ page \in 1..tp) => BemFormada(pageNumbers, page, tp)
     /\ (tm >= 2 /\ currentPage \in 1..tm) => BemFormada(movPageNumbers, currentPage, tm)
     /\ tm >= 2 => currentPage \in 1..tm

\* page 5 of 10: both ellipses are rendered
C29_Witness ==
  /\ TotalPages(Len(filteredMovs), itemsPerPage) = 10
  /\ currentPage = 5
  /\ movPageNumbers = <<1, Reticencias, 4, 5, 6, Reticencias, 10>>

\* page 4 of 8: the first ellipsis stands for page 2 alone
C29_WitnessOne ==
  /\ TotalPages(Len(filteredMovs), itemsPerPage) = 8
  /\ currentPage = 4
  /\ movPageNumbers = <<1, Reticencias, 3, 4, 5, Reticencias, 8>>

====
